---- MODULE Spec2Model ----
(***************************************************************************)
(* Model of the DTM2020 workflow API (src/api/apis.py, run_workflow).      *)
(*                                                                         *)
(* Representation of the program's values:                                 *)
(*   - a date string "YYYY-MM-DD" is the tuple <<y, m, d>> of its fields;  *)
(*     text that does not have that shape is the tuple Junk;               *)
(*   - a datetime at midnight is its ordinal, the number of days since     *)
(*     1970-01-01; strptime is ToOrdinal, strftime is FromOrdinal;         *)
(*   - Kp and the AP_TO_KP values are hundredths or thirds kept as         *)
(*     integers, F10.7obs is kept in tenths, and a mean is the record      *)
(*     [sum, n] of the values averaged (sum / n);                          *)
(*   - a handle key f"{day}_{hour}" is the tuple <<day, hour>>.            *)
(***************************************************************************)
EXTENDS Integers, Sequences, FiniteSets, TLC

\* bounds of the model
MaxAp == 410

MaxSeed == 1

NumProcs == 2

TicksPerDay == 2

MaxTicks == 2

MaxFaults == 1

(***************************************************************************)
(* Calendar: datetime.strptime / strftime / timedelta arithmetic.          *)
(***************************************************************************)
Junk == <<>>

IsLeap(y) == (y % 4 = 0 /\ y % 100 # 0) \/ y % 400 = 0

DaysInMonth(y, m) ==
    IF m = 2 THEN (IF IsLeap(y) THEN 29 ELSE 28)
    ELSE IF m \in {4, 6, 9, 11} THEN 30 ELSE 31

RECURSIVE DaysBeforeMonth(_, _)
DaysBeforeMonth(y, m) ==
    IF m <= 1 THEN 0 ELSE DaysBeforeMonth(y, m - 1) + DaysInMonth(y, m - 1)

YearLength(y) == IF IsLeap(y) THEN 366 ELSE 365

EpochYear == 1970

\* number of leap years in 1..y
LeapsUpTo(y) == (y \div 4) - (y \div 100) + (y \div 400)

\* days from 1970-01-01 to y-01-01 (negative before 1970)
DaysBeforeYear(y) ==
    365 * (y - EpochYear) + LeapsUpTo(y - 1) - LeapsUpTo(EpochYear - 1)

\* datetime.strptime(date, '%Y-%m-%d') succeeds
Parses(date) ==
    /\ Len(date) = 3
    /\ date[1] \in 1..9999
    /\ date[2] \in 1..12
    /\ date[3] \in 1..DaysInMonth(date[1], date[2])

\* the datetime of a parsed date, as days since 1970-01-01
ToOrdinal(date) ==
    DaysBeforeYear(date[1]) + DaysBeforeMonth(date[1], date[2]) + date[3] - 1

RECURSIVE FindYear(_, _)
FindYear(n, y) ==
    IF n < DaysBeforeYear(y) THEN FindYear(n, y - 1)
    ELSE IF n >= DaysBeforeYear(y + 1) THEN FindYear(n, y + 1)
    ELSE y

RECURSIVE FindMonth(_, _, _)
FindMonth(y, rest, m) ==
    IF rest >= DaysInMonth(y, m) THEN FindMonth(y, rest - DaysInMonth(y, m), m + 1)
    ELSE <<m, rest + 1>>

\* strftime('%Y-%m-%d') of the datetime with ordinal n
FromOrdinal(n) ==
    LET y  == FindYear(n, EpochYear + (n \div 365))
        md == FindMonth(y, n - DaysBeforeYear(y), 1)
    IN  <<y, md[1], md[2]>>

\* (d - datetime(d.year, 1, 1)).days + 1
DayOfYear(n) == n - DaysBeforeYear(FromOrdinal(n)[1]) + 1

(***************************************************************************)
(* AP_TO_KP: the dictionary, in insertion order, values in hundredths.     *)
(***************************************************************************)
ApKeys ==
    << 0, 2, 3, 4, 5, 6, 7, 9, 12, 15, 18, 22, 27, 32, 39, 48, 56, 67, 80, 94,
       111, 132, 154, 179, 207, 236, 300, 400 >>

ApValues ==
    << 0, 33, 66, 100, 133, 166, 200, 233, 266, 300, 333, 366, 400, 433, 466,
       500, 533, 566, 600, 633, 666, 700, 733, 766, 800, 833, 866, 900 >>

AP_TO_KP == [k \in {ApKeys[i] : i \in 1..Len(ApKeys)} |->
                ApValues[CHOOSE i \in 1..Len(ApKeys) : ApKeys[i] = k]]

Abs(x) == IF x < 0 THEN -x ELSE x

\* min(iterable, key=f): one pass in iteration order, the running best is
\* replaced only by a strictly smaller key value
RECURSIVE MinByDistance(_, _, _, _)
MinByDistance(keys, i, best, ap) ==
    IF i > Len(keys) THEN best
    ELSE MinByDistance(keys, i + 1,
             IF Abs(keys[i] - ap) < Abs(best - ap) THEN keys[i] ELSE best, ap)

\* a min that keeps the last of several equally near keys
RECURSIVE MinByDistanceLast(_, _, _, _)
MinByDistanceLast(keys, i, best, ap) ==
    IF i > Len(keys) THEN best
    ELSE MinByDistanceLast(keys, i + 1,
             IF Abs(keys[i] - ap) <= Abs(best - ap) THEN keys[i] ELSE best, ap)

NearestKpLast(ap) == AP_TO_KP[MinByDistanceLast(ApKeys, 2, ApKeys[1], ap)]

\* AP_TO_KP[min(AP_TO_KP.keys(), key=lambda x: abs(x - ap))]
NearestKp(ap) == AP_TO_KP[MinByDistance(ApKeys, 2, ApKeys[1], ap)]

(***************************************************************************)
(* The historical dataset Kp_ap_Ap_SN_F107_since_1932.txt: one row per     *)
(* calendar day.  A dataset ds is [seed, apBase, gaps]: the rows are a     *)
(* fixed function of the day, shifted by seed and apBase so that           *)
(* neighbouring days carry different values, and gaps is the set of days   *)
(* that have no row.                                                       *)
(***************************************************************************)
DatasetFirstYear == 1932

KpLevels == 28

FluxSpan == 1000

FluxFloor == 650

HasRecord(ds, n) == n >= DaysBeforeYear(DatasetFirstYear) /\ n \notin ds.gaps

\* columns Kp1..Kp8 (in thirds), Ap, F10.7obs (in tenths) of the row of day n
RowKp(ds, n, i) == (ds.seed + 8 * n + i) % KpLevels

RowAp(ds, n) == (ds.apBase + 37 * n) % (MaxAp + 1)

RowF107(ds, n) == FluxFloor + ((11 * ds.seed + 17 * n) % FluxSpan)

RECURSIVE SumF107(_, _, _)
SumF107(ds, lo, hi) ==
    IF lo > hi THEN 0
    ELSE (IF HasRecord(ds, lo) THEN RowF107(ds, lo) ELSE 0) + SumF107(ds, lo + 1, hi)

\* df[(df['Date'] >= lo) & (df['Date'] <= hi)] : the days of the rows selected
Rows(ds, lo, hi) == {n \in lo..hi : HasRecord(ds, n)}

\* df[...]['F10.7obs'].mean() over the rows of lo..hi (n = 0: NaN)
MeanF107(ds, lo, hi) ==
    [sum |-> SumF107(ds, lo, hi), n |-> Cardinality(Rows(ds, lo, hi))]

\* [['Date', 'F10.7obs']].to_json(orient='records') over the rows of lo..hi
F107Json(ds, lo, hi) == {<<n, RowF107(ds, n)>> : n \in Rows(ds, lo, hi)}

(***************************************************************************)
(* Parameter derivation, lines 98-214 of run_workflow: output_json, or the *)
(* IndexError that .values[0] raises on an empty selection.                *)
(***************************************************************************)
\* [Kp8 of day prev] + [Kp1..Kp7 of day cur]   (Kps.insert(0, Kp_pre[0]))
KpsOf(ds, prev, cur) == <<RowKp(ds, prev, 8)>> \o [i \in 1..7 |-> RowKp(ds, cur, i)]

\* mean windows whose second filter keeps start_date (>= where the code has >)
MeanWindowInclusive(date, k) ==
    LET start_date   == FromOrdinal(ToOrdinal(date) - 80)
        start_1_date == FromOrdinal(ToOrdinal(date) - 79)
        end_date     == FromOrdinal(ToOrdinal(date) + 1)
        end_2_date   == FromOrdinal(ToOrdinal(date) + 2)
        select_date  == ToOrdinal(date)
    IN  CASE k = 1 -> <<ToOrdinal(start_date), select_date>>
          [] k = 2 -> <<ToOrdinal(start_date), ToOrdinal(end_date)>>
          [] k = 3 -> <<ToOrdinal(start_1_date) + 1, ToOrdinal(end_2_date)>>

\* the three mean windows, as the inclusive day ranges the filters select
MeanWindow(date, k) ==
    LET start_date   == FromOrdinal(ToOrdinal(date) - 80)
        start_1_date == FromOrdinal(ToOrdinal(date) - 79)
        end_date     == FromOrdinal(ToOrdinal(date) + 1)
        end_2_date   == FromOrdinal(ToOrdinal(date) + 2)
        select_date  == ToOrdinal(date)
    IN  CASE k = 1 -> <<ToOrdinal(start_date), select_date>>
          [] k = 2 -> <<ToOrdinal(start_date) + 1, ToOrdinal(end_date)>>
          [] k = 3 -> <<ToOrdinal(start_1_date) + 1, ToOrdinal(end_2_date)>>

\* index rows read from the template's own day
IndexDayOwn(date, k) == ToOrdinal(date) + (k - 1)

\* the day whose row supplies fl, ap and akp3 of template k
IndexDay(date, k) ==
    LET select_date   == ToOrdinal(date)
        previous_date == select_date - 1
        end_date      == ToOrdinal(FromOrdinal(ToOrdinal(date) + 1))
    IN  CASE k = 1 -> previous_date
          [] k = 2 -> select_date
          [] k = 3 -> end_date

\* every template given the day of the request date
TemplateDayFirst(date, k) == ToOrdinal(date)

\* the day of template k: select_date, end_date, end_2_date
TemplateDay(date, k) ==
    CASE k = 1 -> ToOrdinal(date)
      [] k = 2 -> ToOrdinal(FromOrdinal(ToOrdinal(date) + 1))
      [] k = 3 -> ToOrdinal(FromOrdinal(ToOrdinal(date) + 2))

\* Kp8 taken from the template's own day
KpPreDayOwn(date, k) == ToOrdinal(date) + (k - 1)

\* the day whose Kp8 is prepended to akp1 of template k
KpPreDay(date, k) ==
    CASE k = 1 -> ToOrdinal(date) - 1
      [] k = 2 -> ToOrdinal(date)
      [] k = 3 -> ToOrdinal(FromOrdinal(ToOrdinal(date) + 1))

RunTemplate(ds, date, altitude, k) ==
    LET w   == MeanWindow(date, k)
        \* line 116: the frame is first cut to [start_date, end_2_date]
        lo  == IF w[1] < ToOrdinal(date) - 80 THEN ToOrdinal(date) - 80 ELSE w[1]
        hi  == IF w[2] > ToOrdinal(date) + 2 THEN ToOrdinal(date) + 2 ELSE w[2]
        ap  == RowAp(ds, IndexDay(date, k))
    IN  [ day  |-> DayOfYear(TemplateDay(date, k)),
          fm   |-> MeanF107(ds, lo, hi),
          fl   |-> RowF107(ds, IndexDay(date, k)),
          alt  |-> altitude,
          akp1 |-> KpsOf(ds, KpPreDay(date, k), TemplateDay(date, k)),
          akp3 |-> NearestKp(ap),
          f107 |-> F107Json(ds, lo, hi),
          ap   |-> ap ]

\* the days read for Ap, F10.7obs and Kp8 only: not the last day
RequiredDaysNoLast(date) ==
    {IndexDay(date, k) : k \in 1..3} \cup {KpPreDay(date, k) : k \in 1..3}

\* the days whose rows are read with .values[0]
RequiredDays(date) ==
    {IndexDay(date, k) : k \in 1..3} \cup {TemplateDay(date, k) : k \in 1..3}
        \cup {KpPreDay(date, k) : k \in 1..3}

Derive(ds, date, altitude) ==
    IF \E n \in RequiredDays(date) : ~HasRecord(ds, n)
    THEN [ok |-> FALSE]
    ELSE [ok |-> TRUE,
          output_json |-> [date |-> date, altitude |-> altitude,
                           runs |-> [k \in 1..3 |-> RunTemplate(ds, date, altitude, k)]]]

(***************************************************************************)
(* The workflow: invocations of run_workflow against one clock, one        *)
(* dataset feed, one remote model service and one output tree.             *)
(*                                                                         *)
(* Invocations are numbered in order of arrival.  Each step below is one   *)
(* external effect of the handler (a filesystem command, a remote call)    *)
(* together with the local computation that leads to it.                   *)
(***************************************************************************)
VARIABLES
    dIn,            \* the inputs of a derivation run on its own
    dOut,           \* its result
    now,            \* datetime.now(), in ticks of 1/TicksPerDay day since 1970-01-01
    feed,           \* the dataset served at DATA_URL
    pc,             \* pc[p]: where invocation p stands in run_workflow
    req,            \* req[p]: [date, altitude, at] as received, at = now on arrival
    out,            \* out[p]: output_json
    run_responses,  \* run_responses[p]: sequence of <<key, execution_id>>
    idx,            \* idx[p]: position of the running loop in run_responses / runs
    result,         \* result[p]: the HTTP response, [status, body]
    calls,          \* calls[p]: remote traffic and filesystem writes of invocation p
    lookup,         \* lookup[p]: what line 84 found at final_zip_file
    fs,             \* fs[dir]: the tree under output/{date}/{altitude}
    faults          \* number of failures of the environment so far

wvars == <<now, feed, pc, req, out, run_responses, idx, result, calls, lookup, fs, faults>>

vars == <<dIn, dOut, now, feed, pc, req, out, run_responses, idx, result, calls,
          lookup, fs, faults>>

\* no value yet
None == [none |-> TRUE]

Procs == 1..NumProcs

\* the requested date of the runs that are let through validation
WorkDate == <<1972, 12, 30>>

\* the first instant at which WorkDate is 3 days old, less one tick
NowStart == TicksPerDay * (ToOrdinal(WorkDate) + 3) - 1

Today(t) == t \div TicksPerDay

\* dates a caller may send at time t
RequestDates(t) ==
    {WorkDate, Junk, <<2024, 13, 1>>, <<1972, 2, 30>>, <<1969, 12, 31>>,
     FromOrdinal(Today(t) + 1)}

RequestAltitudes == {120, 1500, 1501}

Dirs == {<<WorkDate, a>> : a \in {120, 1500}}

Empty == <<>>

NoFinal == [exists |-> FALSE, subs |-> FALSE, runs |-> Empty, manifest |-> FALSE]

NoArchive == [exists |-> FALSE, runs |-> Empty, manifest |-> FALSE]

EmptyDir == [zips |-> Empty, unzipped |-> Empty, final |-> NoFinal, archive |-> NoArchive]

\* failed: the kinds of failure the environment dealt this invocation
NoCalls == [fetch |-> 0, execute |-> <<>>, results |-> <<>>, wrote |-> FALSE,
            failed |-> {}]

\* the dataset as published: whole, or lacking the row of one of the days
\* WorkDate - 1 .. WorkDate + 2
Feeds ==
    {[seed |-> 0, apBase |-> 0, gaps |-> g] :
        g \in {{}} \cup {{ToOrdinal(WorkDate) + o} : o \in -1..2}}

InitAt(t, feeds) ==
    /\ dIn = None
    /\ dOut = None
    /\ now = t
    /\ feed \in feeds
    /\ pc = [p \in Procs |-> "idle"]
    /\ req = [p \in Procs |-> None]
    /\ out = [p \in Procs |-> None]
    /\ run_responses = [p \in Procs |-> <<>>]
    /\ idx = [p \in Procs |-> 0]
    /\ result = [p \in Procs |-> None]
    /\ calls = [p \in Procs |-> NoCalls]
    /\ lookup = [p \in Procs |-> None]
    /\ fs = [d \in Dirs |-> EmptyDir]
    /\ faults = 0

Init == InitAt(NowStart, Feeds)

\* ---- lines 71-80: the framework's altitude check, then the date checks ----
AltitudeOk(altitude) == altitude >= 120 /\ altitude <= 1500

\* a range check that lets any date from 1970-01-01 on through
DateInRangeNoUpper(date, t) == ~(ToOrdinal(date) < ToOrdinal(<<1970, 1, 1>>))

\* not (date > now - 3 days or date < 1970-01-01), in ticks
DateInRange(date, t) ==
    ~(\/ TicksPerDay * ToOrdinal(date) > t - 3 * TicksPerDay
      \/ ToOrdinal(date) < ToOrdinal(<<1970, 1, 1>>))

Respond(p, status, body) == result' = [result EXCEPT ![p] = [status |-> status, body |-> body]]

Done(p) == pc' = [pc EXCEPT ![p] = "done"]

Goto(p, where) == pc' = [pc EXCEPT ![p] = where]

DirOf(p) == <<req[p].date, req[p].altitude>>

\* an invocation arrives and is validated; single: the worker runs one
\* handler at a time (the handler is a coroutine that never awaits)
Start(p, single, dates, altitudes) ==
    /\ pc[p] = "idle"
    /\ IF p = 1 THEN TRUE ELSE pc[p - 1] # "idle"
    /\ single => \A q \in Procs : pc[q] \in {"idle", "done"}
    /\ \E date \in dates, altitude \in altitudes :
          /\ req' = [req EXCEPT ![p] = [date |-> date, altitude |-> altitude, at |-> now]]
          /\ IF ~AltitudeOk(altitude)
             THEN Respond(p, 422, None) /\ Done(p)
             ELSE IF ~Parses(date)
             THEN Respond(p, 400, None) /\ Done(p)
             ELSE IF ~DateInRange(date, now)
             THEN Respond(p, 400, None) /\ Done(p)
             ELSE Goto(p, "cache") /\ UNCHANGED result
    /\ UNCHANGED <<dIn, dOut, now, feed, out, run_responses, idx, calls, lookup, fs, faults>>

\* a lookup that never finds the archive
CacheCheckMiss(p) ==
    /\ pc[p] = "cache"
    /\ lookup' = [lookup EXCEPT ![p] = NoArchive]
    /\ Goto(p, "prepare")
    /\ UNCHANGED <<dIn, dOut, now, feed, req, out, run_responses, idx, result, calls, fs, faults>>

\* ---- lines 82-85: the cached archive is returned ----
CacheCheck(p) ==
    /\ pc[p] = "cache"
    /\ lookup' = [lookup EXCEPT ![p] = fs[DirOf(p)].archive]
    /\ IF fs[DirOf(p)].archive.exists
       THEN Respond(p, 200, fs[DirOf(p)].archive) /\ Done(p)
       ELSE Goto(p, "prepare") /\ UNCHANGED result
    /\ UNCHANGED <<dIn, dOut, now, feed, req, out, run_responses, idx, calls, fs, faults>>

Wrote(p) == calls' = [calls EXCEPT ![p].wrote = TRUE]

\* ---- lines 88-94: rm -rf final if it exists, else makedirs final ----
Prepare(p) ==
    /\ pc[p] = "prepare"
    /\ fs' = [fs EXCEPT ![DirOf(p)].final =
                 IF @.exists THEN NoFinal ELSE [NoFinal EXCEPT !.exists = TRUE]]
    /\ Wrote(p)
    /\ Goto(p, "fetch")
    /\ UNCHANGED <<dIn, dOut, now, feed, req, out, run_responses, idx, result, lookup, faults>>


Others == <<dIn, dOut, now, feed, req>>

\* the loop positions at which the environment may fail
FaultPositions == {1, 12, 24}

Fault == faults' = faults + 1

\* the failure of the given kind is entered in the log c of an invocation
Failed(c, kind) == [c EXCEPT !.failed = @ \cup {kind}]

\* ---- lines 98-214: the dataset is read and output_json derived ----
\* (outside the try block: an exception here becomes the framework's 500)
Fetch(p) ==
    /\ pc[p] = "fetch"
    /\ calls' = [calls EXCEPT ![p].fetch = @ + 1]
    /\ LET d == Derive(feed, req[p].date, req[p].altitude)
       IN  IF d.ok
           THEN /\ out' = [out EXCEPT ![p] = d.output_json]
                /\ Goto(p, "dispatch")
                /\ UNCHANGED result
           ELSE /\ Respond(p, 500, None)
                /\ Done(p)
                /\ UNCHANGED out
    /\ UNCHANGED <<Others, run_responses, idx, lookup, fs, faults>>

\* pd.read_csv raises: the dataset source is unreachable or malformed
FetchFail(p) ==
    /\ pc[p] = "fetch"
    /\ faults < MaxFaults
    /\ Fault
    /\ calls' = [calls EXCEPT ![p] = Failed([@ EXCEPT !.fetch = @ + 1], "fetch")]
    /\ Respond(p, 500, None)
    /\ Done(p)
    /\ UNCHANGED <<Others, out, run_responses, idx, lookup, fs>>

\* ---- lines 216-233: one execute request per akp1 value of every run ----
\* the (run, akp1) pairs in the order the two nested loops visit them
RECURSIVE RunList(_, _)
RunList(output_json, k) ==
    IF k > Len(output_json.runs) THEN <<>>
    ELSE [e \in 1..Len(output_json.runs[k].akp1) |-> <<k, e>>]
             \o RunList(output_json, k + 1)

\* a key whose hour keeps counting across the runs
HandleKeyRunningHour(output_json, ke) ==
    <<output_json.runs[ke[1]].day, 3 * (8 * (ke[1] - 1) + ke[2] - 1)>>

\* new_execution_id = f"{run_params[3]}_{hour}": hour is 0 at the first akp1
\* of a run and grows by 3 with each
HandleKey(output_json, ke) == <<output_json.runs[ke[1]].day, 3 * (ke[2] - 1)>>

\* the query of the execute request for pair ke
RunRequest(output_json, ke) ==
    LET run == output_json.runs[ke[1]]
    IN  [fm |-> run.fm, fl |-> run.fl, alt |-> run.alt, day |-> run.day,
         akp1 |-> run.akp1[ke[2]], akp3 |-> run.akp3]

\* lines 227-233 for a response whose body holds a handle; ok: its status is
\* 2xx (the status is never read)
ExecuteAs(p, ok) ==
    /\ pc[p] = "dispatch"
    /\ LET todo == RunList(out[p], 1)
           ke   == todo[idx[p] + 1]
           id   == <<p, idx[p] + 1>>
           sent == [calls[p] EXCEPT !.execute = Append(@, RunRequest(out[p], ke))]
       IN  /\ calls' = [calls EXCEPT ![p] = IF ok THEN sent ELSE Failed(sent, "status")]
           /\ run_responses' = [run_responses EXCEPT ![p] =
                                    Append(@, <<HandleKey(out[p], ke), id>>)]
           /\ IF idx[p] + 1 = Len(todo)
              THEN Goto(p, "download") /\ idx' = [idx EXCEPT ![p] = 1]
              ELSE UNCHANGED pc /\ idx' = [idx EXCEPT ![p] = @ + 1]
    /\ UNCHANGED <<Others, out, result, lookup, fs>>

Execute(p) == ExecuteAs(p, TRUE) /\ UNCHANGED faults

\* the execute endpoint answers with an error status and a body that still
\* parses as [{"execution_id": ...}]
ExecuteRefused(p) ==
    /\ pc[p] = "dispatch"
    /\ faults < MaxFaults
    /\ idx[p] + 1 \in FaultPositions
    /\ ExecuteAs(p, FALSE)
    /\ Fault

\* requests.get, .json() or [0]["execution_id"] raises
ExecuteFail(p) ==
    /\ pc[p] = "dispatch"
    /\ faults < MaxFaults
    /\ idx[p] + 1 \in FaultPositions
    /\ Fault
    /\ calls' = [calls EXCEPT ![p] = Failed([@ EXCEPT !.execute =
                     Append(@, RunRequest(out[p], RunList(out[p], 1)[idx[p] + 1]))],
                     "execute")]
    /\ Respond(p, 500, None)
    /\ Done(p)
    /\ UNCHANGED <<Others, out, run_responses, idx, lookup, fs>>

\* requests.get(run_request) is given no timeout: a server that accepts the
\* connection and never answers leaves the handler in the call for good
ExecuteHang(p) ==
    /\ pc[p] = "dispatch"
    /\ faults < MaxFaults
    /\ idx[p] + 1 \in FaultPositions
    /\ Fault
    /\ calls' = [calls EXCEPT ![p] = Failed([@ EXCEPT !.execute =
                     Append(@, RunRequest(out[p], RunList(out[p], 1)[idx[p] + 1]))],
                     "silence")]
    /\ Goto(p, "blocked")
    /\ UNCHANGED <<Others, out, run_responses, idx, result, lookup, fs>>

\* ---- lines 234-260: every handle's archive is fetched and unzipped ----
KeyAt(p) == run_responses[p][idx[p]][1]

IdAt(p) == run_responses[p][idx[p]][2]

Has(f, k) == k \in DOMAIN f

Put(f, k, v) == (k :> v) @@ f

\* a download that does not look for {key}.zip first
DownloadAlwaysAs(p, kind, audit) ==
    /\ pc[p] = "download"
    /\ fs' = [fs EXCEPT ![DirOf(p)].zips = Put(@, KeyAt(p), kind)]
    /\ calls' = [calls EXCEPT ![p].results = Append(@, IdAt(p)), ![p].wrote = TRUE]
    /\ Goto(p, "extract")
    /\ UNCHANGED <<Others, out, run_responses, idx, result, lookup>>

\* lines 247-254 with a payload of the given kind ("good": the run's zip,
\* "bad": a body that is no zip archive, e.g. that of an error response);
\* audit: the results request is entered in calls[p].results
DownloadAs(p, kind, audit) ==
    /\ pc[p] = "download"
    /\ IF Has(fs[DirOf(p)].zips, KeyAt(p))
       THEN /\ kind = "good"
            /\ UNCHANGED <<fs, calls>>
       ELSE /\ fs' = [fs EXCEPT ![DirOf(p)].zips = Put(@, KeyAt(p), kind)]
            /\ calls' = [calls EXCEPT ![p].results =
                                          IF audit THEN Append(@, IdAt(p)) ELSE @,
                                      ![p].wrote = TRUE,
                                      ![p].failed =
                                          IF kind = "good" THEN @ ELSE @ \cup {"payload"}]
    /\ Goto(p, "extract")
    /\ UNCHANGED <<Others, out, run_responses, idx, result, lookup>>

Download(p, audit) == DownloadAs(p, "good", audit) /\ UNCHANGED faults

DownloadBad(p) ==
    /\ pc[p] = "download"
    /\ faults < MaxFaults
    /\ idx[p] \in FaultPositions
    /\ ~Has(fs[DirOf(p)].zips, KeyAt(p))
    /\ DownloadAs(p, "bad", TRUE)
    /\ Fault

\* requests.get(results_request) raises
DownloadFail(p) ==
    /\ pc[p] = "download"
    /\ faults < MaxFaults
    /\ idx[p] \in FaultPositions
    /\ ~Has(fs[DirOf(p)].zips, KeyAt(p))
    /\ Fault
    /\ calls' = [calls EXCEPT ![p] =
                     Failed([@ EXCEPT !.results = Append(@, IdAt(p))], "download")]
    /\ Respond(p, 500, None)
    /\ Done(p)
    /\ UNCHANGED <<Others, out, run_responses, idx, lookup, fs>>

\* requests.get(results_request) is given no timeout and is never answered
DownloadHang(p) ==
    /\ pc[p] = "download"
    /\ faults < MaxFaults
    /\ idx[p] \in FaultPositions
    /\ ~Has(fs[DirOf(p)].zips, KeyAt(p))
    /\ Fault
    /\ calls' = [calls EXCEPT ![p] =
                     Failed([@ EXCEPT !.results = Append(@, IdAt(p))], "silence")]
    /\ Goto(p, "blocked")
    /\ UNCHANGED <<Others, out, run_responses, idx, result, lookup, fs>>

NextHandle(p, after) ==
    IF idx[p] = Len(run_responses[p])
    THEN Goto(p, after) /\ idx' = [idx EXCEPT ![p] = 1]
    ELSE idx' = [idx EXCEPT ![p] = @ + 1] /\ UNCHANGED pc

\* lines 257-260 where unzip, if it runs on a zip archive, leaves the
\* directory in the given state ("full": every member, "partial": some)
ExtractAs(p, state) ==
    /\ pc[p] = "extract"
    /\ LET dir == fs[DirOf(p)]
       IN  IF Has(dir.unzipped, KeyAt(p))
           THEN state = "full" /\ UNCHANGED <<fs, calls>>
           ELSE IF dir.zips[KeyAt(p)] = "good"
           THEN /\ fs' = [fs EXCEPT ![DirOf(p)].unzipped = Put(@, KeyAt(p), state)]
                /\ calls' = [calls EXCEPT ![p].wrote = TRUE,
                                          ![p].failed =
                                              IF state = "full" THEN @ ELSE @ \cup {"extract"}]
           ELSE \* unzip finds no archive: exit status ignored, nothing written
                state = "full" /\ UNCHANGED <<fs, calls>>
    /\ IF idx[p] = Len(run_responses[p])
       THEN Goto(p, "mkdirs")
       ELSE Goto(p, "download")
    /\ idx' = [idx EXCEPT ![p] = IF @ = Len(run_responses[p]) THEN 1 ELSE @ + 1]
    /\ UNCHANGED <<Others, out, run_responses, result, lookup>>

Extract(p) == ExtractAs(p, "full") /\ UNCHANGED faults

\* unzip stops part-way (exit status ignored)
ExtractPartial(p) ==
    /\ pc[p] = "extract"
    /\ faults < MaxFaults
    /\ idx[p] \in FaultPositions
    /\ ExtractAs(p, "partial")
    /\ Fault

\* ---- lines 262-266: final/plots_<metric>/ and final/datas_<metric>/ ----
MakeDirs(p) ==
    /\ pc[p] = "mkdirs"
    /\ fs' = [fs EXCEPT ![DirOf(p)].final.exists = TRUE, ![DirOf(p)].final.subs = TRUE]
    /\ Wrote(p)
    /\ Goto(p, "copy")
    /\ UNCHANGED <<Others, out, run_responses, idx, result, lookup, faults>>

\* the files of a key after a copy of content new over content old
MergeKind(old, new) == IF "full" \in {old, new} THEN "full" ELSE "partial"

Merge(old, new) ==
    [k \in DOMAIN old \cup DOMAIN new |->
        IF k \in DOMAIN old /\ k \in DOMAIN new THEN MergeKind(old[k], new[k])
        ELSE IF k \in DOMAIN new THEN new[k] ELSE old[k]]

\* ---- lines 268-279: the files of one handle are copied into final ----
Copy(p) ==
    /\ pc[p] = "copy"
    /\ LET dir == fs[DirOf(p)]
           key == KeyAt(p)
       IN  IF ~Has(dir.unzipped, key)
           THEN \* os.listdir raises FileNotFoundError
                /\ Respond(p, 500, None)
                /\ Done(p)
                /\ UNCHANGED <<fs, idx, calls>>
           ELSE /\ IF dir.final.subs
                   THEN /\ fs' = [fs EXCEPT ![DirOf(p)].final.runs =
                                      Merge(@, key :> dir.unzipped[key])]
                        /\ Wrote(p)
                   ELSE \* cp fails, its exit status is ignored
                        UNCHANGED <<fs, calls>>
                /\ NextHandle(p, "manifest")
                /\ UNCHANGED result
    /\ UNCHANGED <<Others, out, run_responses, lookup, faults>>

\* ---- lines 280-282: final/inputs_runs.json ----
Manifest(p) ==
    /\ pc[p] = "manifest"
    /\ IF fs[DirOf(p)].final.exists
       THEN /\ fs' = [fs EXCEPT ![DirOf(p)].final.manifest = TRUE]
            /\ Wrote(p)
            /\ Goto(p, "zip")
            /\ UNCHANGED result
       ELSE \* open raises FileNotFoundError
            /\ Respond(p, 500, None)
            /\ Done(p)
            /\ UNCHANGED <<fs, calls>>
    /\ UNCHANGED <<Others, out, run_responses, idx, lookup, faults>>

\* ---- line 284: zip -r final_output.zip final (adds to or updates the
\* archive if there is one; fails, unnoticed, if final is gone) ----
Zip(p) ==
    /\ pc[p] = "zip"
    /\ LET dir == fs[DirOf(p)]
       IN  IF dir.final.exists
           THEN /\ fs' = [fs EXCEPT ![DirOf(p)].archive =
                              [exists   |-> TRUE,
                               runs     |-> Merge(dir.archive.runs, dir.final.runs),
                               manifest |-> dir.archive.manifest \/ dir.final.manifest]]
                /\ Wrote(p)
           ELSE UNCHANGED <<fs, calls>>
    /\ Goto(p, "return")
    /\ UNCHANGED <<Others, out, run_responses, idx, result, lookup, faults>>

\* ---- lines 288-292 ----
Return(p) ==
    /\ pc[p] = "return"
    /\ IF fs[DirOf(p)].archive.exists
       THEN Respond(p, 200, fs[DirOf(p)].archive)
       ELSE Respond(p, 500, None)
    /\ Done(p)
    /\ UNCHANGED <<Others, out, run_responses, idx, calls, lookup, fs, faults>>

\* time passes
Tick ==
    /\ now < NowStart + MaxTicks
    \* the clock is read on arrival only: its advance shows between arrivals
    /\ \A p \in Procs : pc[p] \in {"idle", "done"}
    /\ now' = now + 1
    /\ UNCHANGED <<dIn, dOut, feed, pc, req, out, run_responses, idx, result, calls,
                   lookup, fs, faults>>

Pipeline(p, audit) ==
    \/ CacheCheck(p) \/ Prepare(p) \/ Fetch(p) \/ Execute(p) \/ Download(p, audit)
    \/ Extract(p) \/ MakeDirs(p) \/ Copy(p) \/ Manifest(p) \/ Zip(p) \/ Return(p)

Failure(p) ==
    \/ FetchFail(p) \/ ExecuteFail(p) \/ ExecuteRefused(p) \/ ExecuteHang(p)
    \/ DownloadBad(p) \/ DownloadFail(p) \/ DownloadHang(p) \/ ExtractPartial(p)

\* one worker process: handlers run one after the other
Next ==
    \/ Tick
    \/ \E p \in Procs :
          \/ Start(p, TRUE, RequestDates(now), RequestAltitudes)
          \/ Pipeline(p, TRUE)
          \/ Failure(p)

Spec == Init /\ [][Next]_vars

\* Several worker processes over the same output tree, all asked for the
\* same (date, altitude) once the date is admissible, the environment never
\* failing.  A step that reads and writes nothing but the invocation's own
\* variables (the dataset read, an execute request) commutes with every step
\* of the other invocations, so it is taken before them; which invocation
\* sent which results request is not recorded.
InitConc == InitAt(NowStart + 1, {f \in Feeds : f.gaps = {}})

Local(p) == pc[p] \in {"fetch", "dispatch"}

Turn(p) == Local(p) \/ \A q \in Procs : ~Local(q)

NextConc ==
    \E p \in Procs :
        \/ Turn(p) /\ Start(p, FALSE, {WorkDate}, {120})
        \/ Turn(p) /\ CacheCheck(p)
        \/ Turn(p) /\ Prepare(p)
        \/ Turn(p) /\ Fetch(p)
        \/ Turn(p) /\ Execute(p)
        \/ Turn(p) /\ Download(p, FALSE)
        \/ Turn(p) /\ Extract(p)
        \/ Turn(p) /\ MakeDirs(p)
        \/ Turn(p) /\ Copy(p)
        \/ Turn(p) /\ Manifest(p)
        \/ Turn(p) /\ Zip(p)
        \/ Turn(p) /\ Return(p)

SpecConc == InitConc /\ [][NextConc]_vars

(***************************************************************************)
(* Parameter derivation on its own: the inputs are drawn in Init and the   *)
(* one action applies Derive to them.                                      *)
(***************************************************************************)
Altitudes == {120, 1500}

\* request dates around year ends, a leap day and the first admissible day
DeriveDates ==
    {FromOrdinal(n) : n \in (ToOrdinal(<<1971, 12, 29>>)..ToOrdinal(<<1972, 1, 1>>))
                        \cup (ToOrdinal(<<1972, 2, 27>>)..ToOrdinal(<<1972, 3, 1>>))
                        \cup (ToOrdinal(<<1972, 12, 29>>)..ToOrdinal(<<1973, 1, 1>>))
                        \cup {0, ToOrdinal(<<2000, 2, 28>>)}}

\* days, relative to the request date, that may lack a row
GapOffsets == {-40, -1, 0, 2}

DeriveInputs ==
    {[ds |-> [seed |-> 0, apBase |-> a, gaps |-> {}], date |-> <<1972, 12, 30>>,
      altitude |-> 120] : a \in 0..MaxAp}
    \cup
    {[ds |-> [seed |-> s, apBase |-> a, gaps |-> g], date |-> d, altitude |-> alt] :
        s \in 0..MaxSeed, a \in {0, 7}, d \in DeriveDates, alt \in Altitudes,
        g \in {{}}}
    \cup
    {[ds |-> [seed |-> 0, apBase |-> 0, gaps |-> {ToOrdinal(d) + o}], date |-> d,
      altitude |-> 120] : d \in DeriveDates, o \in GapOffsets}

DeriveInit ==
    /\ dIn \in DeriveInputs
    /\ dOut = None
    /\ now = NowStart
    /\ feed = dIn.ds
    /\ pc = [p \in Procs |-> "idle"]
    /\ req = [p \in Procs |-> None]
    /\ out = [p \in Procs |-> None]
    /\ run_responses = [p \in Procs |-> <<>>]
    /\ idx = [p \in Procs |-> 0]
    /\ result = [p \in Procs |-> None]
    /\ calls = [p \in Procs |-> NoCalls]
    /\ lookup = [p \in Procs |-> None]
    /\ fs = [d \in Dirs |-> EmptyDir]
    /\ faults = 0

DeriveStep ==
    /\ dOut = None
    /\ dOut' = Derive(dIn.ds, dIn.date, dIn.altitude)
    /\ UNCHANGED <<dIn, wvars>>

DeriveNext == DeriveStep

SpecDerive == DeriveInit /\ [][DeriveNext]_vars

(***************************************************************************)
(* Claims about the derived parameters (checked under SpecDerive).         *)
(***************************************************************************)
Derived == dOut # None /\ dOut.ok

\* the reference date of day-template k (k = 1..3 for offsets 0..2)
RefDay(k) == ToOrdinal(dIn.date) + (k - 1)

TemplateOut(k) == dOut.output_json.runs[k]

\* the key nearest to ap, the lower one when two are equally near
NearestKeySpec(ap) ==
    CHOOSE k \in DOMAIN AP_TO_KP :
        \A j \in DOMAIN AP_TO_KP :
            \/ Abs(k - ap) < Abs(j - ap)
            \/ (Abs(k - ap) = Abs(j - ap) /\ k <= j)

RECURSIVE SumOver(_, _)
SumOver(ds, days) ==
    IF days = {} THEN 0
    ELSE LET n == CHOOSE x \in days : TRUE
         IN  RowF107(ds, n) + SumOver(ds, days \ {n})

\* the rows of the 81 calendar days that end at the reference date
WindowRows(k) == {n \in (RefDay(k) - 80)..RefDay(k) : HasRecord(dIn.ds, n)}

C7_NearestIndex ==
    Derived =>
        \A k \in 1..3 :
            LET ap == TemplateOut(k).ap
                kp == TemplateOut(k).akp3
            IN  /\ ap \in DOMAIN AP_TO_KP => kp = AP_TO_KP[ap]
                /\ \A i \in 1..(Len(ApKeys) - 1) :
                       (ApKeys[i] < ap /\ ap < ApKeys[i + 1]) =>
                           kp = IF ap - ApKeys[i] <= ApKeys[i + 1] - ap
                                THEN ApValues[i] ELSE ApValues[i + 1]
                /\ ap > 400 => kp = 900

\* an Ap exactly half-way between keys 300 and 400 has been mapped
C7_Witness ==
    /\ Derived
    /\ \E k \in 1..3 : TemplateOut(k).ap = 350 /\ TemplateOut(k).akp3 = 866
    /\ \E k \in 1..3 : TemplateOut(k).ap \notin DOMAIN AP_TO_KP

\* C8: for every day-template akp1 has exactly 8 elements: Kp8 of day R-1
\* followed by Kp1..Kp7 of day R.
C8_Akp1Sequence ==
    Derived =>
        \A k \in 1..3 :
            /\ Len(TemplateOut(k).akp1) = 8
            /\ TemplateOut(k).akp1[1] = RowKp(dIn.ds, RefDay(k) - 1, 8)
            /\ \A i \in 1..7 : TemplateOut(k).akp1[i + 1] = RowKp(dIn.ds, RefDay(k), i)

C8_Witness ==
    /\ Derived
    /\ \A k \in 1..3 :
           /\ RowKp(dIn.ds, RefDay(k) - 1, 8) # RowKp(dIn.ds, RefDay(k), 8)
           /\ RowKp(dIn.ds, RefDay(k), 8) \notin {TemplateOut(k).akp1[i] : i \in 1..8}

(***************************************************************************)
(* Claims about the workflow (checked under Spec and SpecConc).            *)
(***************************************************************************)
Status(p) == IF result[p] = None THEN 0 ELSE result[p].status

Arrived(p) == req[p] # None

\* the handle keys of a request for directory d = <<date, altitude>>
ExpectedKeys(d) ==
    {<<DayOfYear(ToOrdinal(d[1]) + k), 3 * i>> : k \in 0..2, i \in 0..7}

\* an archive that holds every file of all the runs, and the manifest
Complete(archive, d) ==
    /\ archive.manifest
    /\ \A key \in ExpectedKeys(d) :
           key \in DOMAIN archive.runs /\ archive.runs[key] = "full"

\* C2: with concurrent invocations for the same (date, altitude), every
\* final archive visible at the canonical path, and every archive returned to
\* a caller, holds the complete set of files of all 24 runs and the manifest.
C2_NoPartialArchive ==
    /\ \A d \in Dirs : fs[d].archive.exists => Complete(fs[d].archive, d)
    /\ \A p \in Procs : Status(p) = 200 => Complete(result[p].body, DirOf(p))

\* C3: once the final archive exists at the canonical path, no step of any
\* invocation deletes it or changes its content.
C3_ArchiveImmutable ==
    [][\A d \in Dirs : fs[d].archive.exists => fs'[d].archive = fs[d].archive]_vars

\* C1: once an invocation for a valid (date, altitude) has returned the
\* archive, every later invocation with the same (date, altitude) is let
\* through validation, finds the archive at line 84 and returns that same
\* archive, having sent no dataset fetch, no execute request, no results
\* request and having written nothing; the archive on disk is still the one
\* the first invocation returned.
C1_Idempotent ==
    \A q \in Procs : \A p \in Procs :
        (q < p /\ Status(q) = 200 /\ Arrived(p) /\ DirOf(p) = DirOf(q)) =>
            /\ pc[p] \in {"cache", "done"}
            /\ fs[DirOf(q)].archive = result[q].body
            /\ pc[p] = "done" =>
                   /\ lookup[p] = result[q].body
                   /\ Status(p) = 200
                   /\ result[p].body = result[q].body
                   /\ calls[p] = NoCalls

C1_Witness ==
    \E q \in Procs : \E p \in Procs :
        /\ q < p
        /\ Status(q) = 200 /\ calls[q].fetch = 1 /\ Len(calls[q].execute) = 24
        /\ Status(p) = 200 /\ DirOf(p) = DirOf(q)
        /\ req[p].at > req[q].at

\* a date the API must reject at time t: no calendar date in the form
\* YYYY-MM-DD, or before 1970-01-01, or later than t minus 3 days
BadDate(date, t) ==
    \/ Len(date) # 3
    \/ date[1] < 1
    \/ FromOrdinal(ToOrdinal(date)) # date
    \/ ToOrdinal(date) < 0
    \/ TicksPerDay * (ToOrdinal(date) + 3) > t

ExpectedRun(base, doy, altitude, i) ==
    LET R == base + (i \div 8)
        e == i % 8
    IN  [day  |-> doy[(i \div 8) + 1],
         alt  |-> altitude,
         akp1 |-> IF e = 0 THEN RowKp(feed, R - 1, 8) ELSE RowKp(feed, R, e),
         hour |-> 3 * e]

Dispatched(p) == pc[p] \in {"download", "extract", "mkdirs", "copy", "manifest", "zip", "return"}

C10_AssemblyAfterCollection ==
    \A p \in Procs :
        ((pc[p] = "copy" /\ idx[p] > 1) \/ pc[p] \in {"manifest", "zip", "return"}) =>
            \A i \in 1..Len(run_responses[p]) :
                /\ Has(fs[DirOf(p)].zips, run_responses[p][i][1])
                /\ Has(fs[DirOf(p)].unzipped, run_responses[p][i][1])

\* invocation p is the latest to have arrived
Latest(p) == \A q \in Procs : q > p => ~Arrived(q)

\* invocation p was dealt a failure of one of the given kinds
Suffered(p, kinds) == calls[p].failed \cap kinds # {}

\* C11: an invocation one of whose execute requests failed (the call raised,
\* the body did not parse, or the status was not 2xx) has ended with the
\* error 500, has sent no results request, and has left no final archive.
C11_DispatchFailureFatal ==
    \A p \in Procs :
        Suffered(p, {"execute", "status"}) =>
            /\ pc[p] = "done"
            /\ Status(p) = 500
            /\ calls[p].results = <<>>
            /\ Latest(p) => ~fs[DirOf(p)].archive.exists

\* C12: an invocation that met a failed download (the call raised, or the
\* payload was no archive) or a failed extraction returns no archive, and
\* leaves none at the canonical path.
C12_CollectionFailureFatal ==
    \A p \in Procs :
        Suffered(p, {"download", "payload", "extract"}) =>
            /\ Status(p) # 200
            /\ Latest(p) => ~fs[DirOf(p)].archive.exists

\* invocation p stands before a statement that will run: the guards of the
\* steps of Pipeline
CanStep(p) ==
    pc[p] \in {"cache", "prepare", "fetch", "dispatch", "download", "extract",
               "mkdirs", "copy", "manifest", "zip", "return"}

\* C13: an invocation that has arrived and has not yet answered its caller
\* always has a step to take: no remote call leaves it waiting for good.
C13_AlwaysReturns ==
    \A p \in Procs :
        Arrived(p) => pc[p] = "done" \/ CanStep(p)

\* the days date - 1 .. date + 2 of the request of invocation p
FourDays(p) == (ToOrdinal(req[p].date) - 1)..(ToOrdinal(req[p].date) + 2)

\* C14: an invocation that has read a dataset lacking the row of one of the
\* days date - 1, date, date + 1, date + 2 has ended with the error 500, has
\* derived no parameters, sent no execute request, and there is no final
\* archive for its (date, altitude).
C14_MissingRecordFatal ==
    \A p \in Procs :
        (calls[p].fetch > 0 /\ \E n \in FourDays(p) : ~HasRecord(feed, n)) =>
            /\ pc[p] = "done"
            /\ Status(p) = 500
            /\ out[p] = None
            /\ calls[p].execute = <<>>
            /\ run_responses[p] = <<>>
            /\ ~fs[DirOf(p)].archive.exists

\* the dataset was read, whole but for the row of date + 2, and the
\* invocation has ended with 500
C14_Witness ==
    \E p \in Procs :
        /\ calls[p].fetch > 0
        /\ calls[p].failed = {}
        /\ feed.gaps = {ToOrdinal(req[p].date) + 2}
        /\ Status(p) = 500

\* C15: the step of an invocation that passes lines 245-254 for a key whose
\* {key}.zip exists sends no results request and leaves the archives as they
\* are, and otherwise sends one request and writes {key}.zip; the step that
\* passes lines 256-260 for a key whose directory exists leaves the extracted
\* directories as they are, and otherwise unzips the archive into it.
C15_CollectionIdempotent ==
    [][\A p \in Procs :
          /\ (pc[p] = "download" /\ pc'[p] = "extract") =>
                 IF Has(fs[DirOf(p)].zips, KeyAt(p))
                 THEN /\ calls'[p].results = calls[p].results
                      /\ fs'[DirOf(p)].zips = fs[DirOf(p)].zips
                 ELSE /\ calls'[p].results = Append(calls[p].results, IdAt(p))
                      /\ Has(fs'[DirOf(p)].zips, KeyAt(p))
          /\ (pc[p] = "extract" /\ pc'[p] # "extract") =>
                 IF Has(fs[DirOf(p)].unzipped, KeyAt(p))
                 THEN fs'[DirOf(p)].unzipped = fs[DirOf(p)].unzipped
                 ELSE fs[DirOf(p)].zips[KeyAt(p)] = "good" =>
                          Has(fs'[DirOf(p)].unzipped, KeyAt(p))
      ]_vars

\* an invocation has gone through the 24 handles, finding some archives on
\* disk and downloading the others
C15_Witness ==
    \E p \in Procs :
        /\ pc[p] = "mkdirs"
        /\ Len(calls[p].results) \in 1..23

(***************************************************************************)
(* Assembly on file names (lines 262-279): a string is the sequence of     *)
(* its characters.  The inputs are two handle keys; the one action copies  *)
(* the files of both runs into the final folder.                           *)
(***************************************************************************)
ModelName == <<"D", "T", "M", "2", "0", "F", "1", "0", "7", "K", "p">>

He == <<"H", "e">>

N2 == <<"N", "2">>

O == <<"O">>

ro == <<"r", "o">>

Tinf == <<"T", "i", "n", "f">>

Tz == <<"T", "z">>

folder_metrics == {He, N2, O, ro, Tinf, Tz}

Datx == <<".", "d", "a", "t", "x">>

Png == <<".", "p", "n", "g">>

\* the members of a run's archive (line 240)
Listing == {ModelName \o <<"_">> \o q \o e : q \in folder_metrics, e \in {Datx, Png}}

LowerCase(c) ==
    CASE c = "D" -> "d" [] c = "T" -> "t" [] c = "M" -> "m" [] c = "F" -> "f"
      [] c = "K" -> "k" [] c = "H" -> "h" [] c = "N" -> "n" [] c = "O" -> "o"
      [] OTHER -> c

Lower(str) == [i \in 1..Len(str) |-> LowerCase(str[i])]

\* sub in str
Contains(sub, str) ==
    \E i \in 1..(Len(str) - Len(sub) + 1) : SubSeq(str, i, i + Len(sub) - 1) = sub

\* str.endswith(suffix)
EndsWith(str, suffix) ==
    /\ Len(str) >= Len(suffix)
    /\ SubSeq(str, Len(str) - Len(suffix) + 1, Len(str)) = suffix

\* str.replace(old, new): every occurrence, left to right
RECURSIVE Replace(_, _, _)
Replace(str, old, new) ==
    IF Len(str) < Len(old) THEN str
    ELSE IF SubSeq(str, 1, Len(old)) = old
    THEN new \o Replace(SubSeq(str, Len(old) + 1, Len(str)), old, new)
    ELSE <<Head(str)>> \o Replace(Tail(str), old, new)

DigitChar == <<"0", "1", "2", "3", "4", "5", "6", "7", "8", "9">>

\* the decimal form of a natural number, as an f-string prints it
RECURSIVE Digits(_)
Digits(n) ==
    IF n < 10 THEN <<DigitChar[n + 1]>>
    ELSE Digits(n \div 10) \o <<DigitChar[(n % 10) + 1]>>

\* f"{day}_{hour}"
KeyString(key) == Digits(key[1]) \o <<"_">> \o Digits(key[2])

\* a test of the metric against the file name that ignores case
MatchesAnyCase(folder_metric, filename) == Contains(Lower(folder_metric), Lower(filename))

\* line 274: if folder_metric in filename
Matches(folder_metric, filename) == Contains(folder_metric, filename)

\* lines 272-279 for one run: the cp commands run, each as
\* [folder, name, from]: the file from[2] of run from[1] is written as
\* name in folder <<"datas" or "plots", metric>>
CopiesOf(key) ==
    {[folder |-> <<IF EndsWith(f, Datx) THEN "datas" ELSE "plots", m>>,
      name   |-> Replace(f, ModelName, KeyString(key)),
      from   |-> <<key, f>>] :
        <<m, f>> \in {mf \in folder_metrics \X Listing :
                        /\ Matches(mf[1], mf[2])
                        /\ EndsWith(mf[2], Datx) \/ EndsWith(mf[2], Png)}}

\* lines 268-279 over the given runs
Assemble(keys) == UNION {CopiesOf(k) : k \in keys}

RouteDays == {1, 2, 365, 366}

RouteKeys == {<<d, 3 * e>> : d \in RouteDays, e \in 0..7}

RouteInputs == {ks \in RouteKeys \X RouteKeys : ks[1] # ks[2]}

RouteInit ==
    /\ dIn \in RouteInputs
    /\ dOut = None
    /\ now = NowStart
    /\ feed \in {f \in Feeds : f.gaps = {}}
    /\ pc = [p \in Procs |-> "idle"]
    /\ req = [p \in Procs |-> None]
    /\ out = [p \in Procs |-> None]
    /\ run_responses = [p \in Procs |-> <<>>]
    /\ idx = [p \in Procs |-> 0]
    /\ result = [p \in Procs |-> None]
    /\ calls = [p \in Procs |-> NoCalls]
    /\ lookup = [p \in Procs |-> None]
    /\ fs = [d \in Dirs |-> EmptyDir]
    /\ faults = 0

RouteStep ==
    /\ dOut = None
    /\ dOut' = [copies |-> Assemble({dIn[1], dIn[2]})]
    /\ UNCHANGED <<dIn, wvars>>

RouteNext == RouteStep

SpecRoute == RouteInit /\ [][RouteNext]_vars

\* C16: after assembly, each file DTM20F107Kp_<q><ext> of a run with key K
\* has been copied exactly once, into datas_<q> for .datx and plots_<q> for
\* .png, under the name K_<q><ext>; nothing else has been copied, and no
\* two copies went to the same name in the same folder.
C16_Routing ==
    dOut # None =>
        /\ \A k \in {dIn[1], dIn[2]} : \A q \in folder_metrics : \A e \in {Datx, Png} :
               {c \in dOut.copies : c.from = <<k, ModelName \o <<"_">> \o q \o e>>}
                 = {[folder |-> <<IF e = Datx THEN "datas" ELSE "plots", q>>,
                     name   |-> KeyString(k) \o <<"_">> \o q \o e,
                     from   |-> <<k, ModelName \o <<"_">> \o q \o e>>]}
        /\ \A c \in dOut.copies : c.from[1] \in {dIn[1], dIn[2]} /\ c.from[2] \in Listing
        /\ \A c1 \in dOut.copies : \A c2 \in dOut.copies :
               (c1.folder = c2.folder /\ c1.name = c2.name) => c1.from = c2.from

\* the runs 365_21 and 1_0 have been assembled: 24 files
C16_Witness ==
    /\ dOut # None
    /\ dIn = <<<<365, 21>>, <<1, 0>>>>
    /\ Cardinality(dOut.copies) = 24
    /\ \E c \in dOut.copies : c.folder = <<"plots", O>>
                        /\ c.name = <<"1", "_", "0", "_", "O", ".", "p", "n", "g">>

\* the handle keys of the runs of output_json, in dispatch order
HandleKeys(output_json) ==
    [i \in 1..Len(RunList(output_json, 1)) |->
        HandleKey(output_json, RunList(output_json, 1)[i])]

\* C17: the 24 handle keys derived for a request are pairwise distinct, as
\* pairs <<day_of_year, hour>> and as the strings "{day_of_year}_{hour}".
C17_KeysDistinct ==
    Derived =>
        \A ks \in {HandleKeys(dOut.output_json)} :
            /\ Len(ks) = 24
            /\ \A i \in 1..24 : \A j \in 1..24 :
                   i < j => ks[i] # ks[j] /\ KeyString(ks[i]) # KeyString(ks[j])

\* a request whose three days are the last two of a leap year and the first
\* of the next: days 365, 366 and 1
C17_Witness ==
    /\ Derived
    /\ dIn.date = <<1972, 12, 30>>
    /\ {dOut.output_json.runs[k].day : k \in 1..3} = {365, 366, 1}

\* C18: when an invocation has failed in result collection (a payload that
\* was no archive, an extraction that failed), a later invocation for the
\* same (date, altitude) whose remote calls and commands all succeed ends
\* with status 200 and the complete final archive.
C18_RecoveryAfterFailure ==
    \A q \in Procs : \A p \in Procs :
        (/\ q < p
         /\ Status(q) = 500 /\ Suffered(q, {"payload", "extract"})
         /\ Arrived(p) /\ DirOf(p) = DirOf(q)
         /\ calls[p].failed = {}
         /\ pc[p] = "done")
        => /\ Status(p) = 200
           /\ Complete(result[p].body, DirOf(p))

====
